---- MODULE Spec2Model ----
(***************************************************************************)
(* State-machine model of asyncswarm.py: an Arena of Robots that move      *)
(* toward the swarm centroid, driven either by the synchronous loop        *)
(* Arena.runSync or by the asyncio tasks of Arena.runAsync.                *)
(*                                                                         *)
(* Time is an integer clock counting units of 1/UnitsPerSecond seconds; it  *)
(* advances while drawBots works (0..MaxWork units) and while the program   *)
(* sleeps; every other statement is taken to be instantaneous.             *)
(* Coordinates are fixed-point integers counting 1/Scale pixel; a float    *)
(* division is modelled by a division that truncates toward zero and       *)
(* math.hypot by the integer square root.                                  *)
(***************************************************************************)
EXTENDS Integers, Sequences, FiniteSets, TLC

\* ---------------------------------------------------------------- bounds
MaxBots == 2
MaxFrames == 2
MaxClock == 4
MaxInputs == 1
MaxWork == 1
MaxUnitBots == 4
MaxUnitTime == 2

\* ------------------------------------------------------- program constants
PixPerSecond == 50
DrawHz == 15
UnitsPerSecond == 30
Scale == 8
DistFloor == 1
DrawInterval == UnitsPerSecond \div DrawHz

\* initial (x, y) in pixels and nap in clock units, as randomBot may draw them
BotChoices == {[x |-> 0, y |-> 0, nap |-> 1], [x |-> 4, y |-> 3, nap |-> 2]}
ColorChoices == {<<10, 20, 30>>}
EventKinds == {"QUIT", "KEYDOWN_ESCAPE", "KEYDOWN_OTHER"}

\* ------------------------------------------------------------ arithmetic
Abs(a) == IF a < 0 THEN -a ELSE a

Max(a, b) == IF a >= b THEN a ELSE b

\* float division, truncated toward zero on the fixed-point grid
Div(a, b) == IF a >= 0 THEN a \div b ELSE -((-a) \div b)

\* math.hypot on the fixed-point grid
Hypot(a, b) ==
  LET n == a * a + b * b
  IN CHOOSE r \in 0..(Abs(a) + Abs(b)) : r * r <= n /\ (r + 1) * (r + 1) > n

RECURSIVE SumX(_), SumY(_)
SumX(rs) == IF rs = <<>> THEN 0 ELSE Head(rs).xy[1] + SumX(Tail(rs))
SumY(rs) == IF rs = <<>> THEN 0 ELSE Head(rs).xy[2] + SumY(Tail(rs))

\* the value refreshCentroid computes for a non-empty robot list
MeanOffByOne(rs) ==
  <<Div(SumX(rs), Len(rs) + 1), Div(SumY(rs), Len(rs) + 1)>>
Mean(rs) == <<Div(SumX(rs), Len(rs)), Div(SumY(rs), Len(rs))>>

\* what Arena.refreshCentroid stores in self.centroid and returns
refreshCentroidNotStored(rs) == <<>>
refreshCentroidNoDivide(rs) == <<SumX(rs), SumY(rs)>>
refreshCentroid(rs) == Mean(rs)

\* the position Robot.update computes from xy and the centroid c when the
\* travel distance pixPerSecond * dt is num / den pixels
MovedByUnnormalized(xy, c, num, den) ==
  LET distx == c[1] - xy[1]
      disty == c[2] - xy[2]
      dist == DistFloor * Scale
      dx == Div(num * Scale * distx, den * dist)
      dy == Div(num * Scale * disty, den * dist)
  IN <<xy[1] + dx, xy[2] + dy>>
MovedBy(xy, c, num, den) ==
  LET distx == c[1] - xy[1]
      disty == c[2] - xy[2]
      dist == Max(DistFloor * Scale, Hypot(distx, disty))
      dx == Div(num * Scale * distx, den * dist)
      dy == Div(num * Scale * disty, den * dist)
  IN <<xy[1] + dx, xy[2] + dy>>

\* the same with dt in clock units
Moved(xy, c, dt) == MovedBy(xy, c, PixPerSecond * dt, UnitsPerSecond)

\* dt = now - self.prevTime
ElapsedSinceStart(r, t) == t
Elapsed(r, t) == t - r.prevTime

\* self.xy = x + dx, y + dy : one assignment of the whole pair
StoreXYTorn(old, new) == <<new[1], old[2]>>
StoreXY(old, new) == new

\* Robot.update with the clock reading t and the centroid c it reads
UpdateWrongField(r, c, t) ==
  [r EXCEPT !.xy = StoreXY(r.xy, Moved(r.xy, c, Elapsed(r, t))),
            !.nap = t]
Update(r, c, t) ==
  [r EXCEPT !.xy = StoreXY(r.xy, Moved(r.xy, c, Elapsed(r, t))),
            !.prevTime = t]

\* what drawBots puts on the surface: every robot's current xy
SnapshotAfterUpdate(rs, c, t) == [i \in 1..Len(rs) |-> Update(rs[i], c, t).xy]
Snapshot(rs, c, t) == [i \in 1..Len(rs) |-> rs[i].xy]

\* stopAfterNFrames and nFrames >= stopAfterNFrames
CeilingReachedOffByOne(n, k) == k # 0 /\ n > k
CeilingReached(n, k) == k # 0 /\ n >= k

\* ---------------------------------------------------- handlePygameEvents
HasQuit(evs) == \E i \in 1..Len(evs) : evs[i] = "QUIT"

\* keepRunning after the drained events evs were handled
KeepRunningAfterIgnoresQuit(evs, kr) == kr
KeepRunningAfter(evs, kr) == kr /\ ~HasQuit(evs)

\* a stop request in a drained event list: window close or Escape key-down
HasStopRequest(evs) ==
  \E i \in 1..Len(evs) : evs[i] \in {"QUIT", "KEYDOWN_ESCAPE"}

\* the QUIT events posted back to the queue, one per Escape key-down
RECURSIVE Posted(_)
Posted(evs) ==
  IF evs = <<>> THEN <<>>
  ELSE IF Head(evs) = "KEYDOWN_ESCAPE" THEN <<"QUIT">> \o Posted(Tail(evs))
  ELSE Posted(Tail(evs))

VARIABLES
  pc,               \* position of the driver (simulate / runSync / runAsync)
  useAsync,         \* strategy selected on the command line
  stopAfterNFrames, \* frame-count ceiling, 0 = none
  numberOfRobots,   \* argument of Arena()
  error,            \* exception raised by the constructor, "none" if none
  keepRunning,      \* Arena.keepRunning
  displayOpen,      \* FALSE once pygame.display.quit() was called
  robots,           \* Arena.robots: sequence of [xy, color, nap, prevTime]
  centroid,         \* Arena.centroid, <<>> before it is first assigned
  clock,            \* time.perf_counter()
  events,           \* the pygame event queue
  nInputs,          \* number of events the user has produced
  polled,           \* the list the last pygame.event.get() returned
  now,              \* runSync local
  next,             \* runSync local
  nFrames,          \* runSync / runGuiAsync local
  idx,              \* position of runSync's for loop over self.robots
  sleepStart,       \* clock at the call of time.sleep in runSync
  sleepFor,         \* argument of that call
  guiPc,            \* runGuiAsync task: "start", "nap", "done"
  guiWake,          \* end of the renderer's asyncio.sleep
  botPc,            \* Robot.runAsync tasks: "start", "nap", "done"
  botWake,          \* end of each robot's asyncio.sleep
  draws,            \* history: number of drawBots calls
  drawn,            \* history: the positions the last drawBots drew
  prevFinal,        \* history: positions at the end of the previous tick
  tickCentroid,     \* history: centroid stored when the tick started
  readC,            \* history: centroid each robot's last update read
  computed,         \* history: per robot, the pairs it was given
  call              \* a method called directly on an object: its arguments
                    \* and result, <<>> when the program runs from simulate

vars == <<pc, useAsync, stopAfterNFrames, numberOfRobots, error, keepRunning,
          displayOpen, robots, centroid, clock, events, nInputs, polled, now,
          next,
          nFrames, idx, sleepStart, sleepFor, guiPc, guiWake, botPc, botWake,
          draws, drawn, prevFinal, tickCentroid, readC, computed, call>>

syncVars == <<now, next, idx, sleepStart, sleepFor>>
asyncVars == <<guiPc, guiWake, botPc, botWake>>
inputVars == <<useAsync, stopAfterNFrames, numberOfRobots, call>>

\* value of an attribute that was not assigned yet
Unset == <<>>

\* Arena.findCentroid: the most recently stored centroid
findCentroidRecompute == Mean(robots)
findCentroid == centroid

\* state after initForPygame, before initForSwarm
Init ==
  /\ pc = "construct"
  /\ useAsync \in BOOLEAN
  /\ stopAfterNFrames \in 0..MaxFrames
  /\ numberOfRobots \in 0..MaxBots
  /\ error = "none"
  /\ keepRunning = TRUE
  /\ displayOpen = TRUE
  /\ robots = <<>>
  /\ centroid = Unset
  /\ clock = 0
  /\ events = <<>>
  /\ nInputs = 0
  /\ polled = <<>>
  /\ now = 0 /\ next = 0 /\ nFrames = 0 /\ idx = 0
  /\ sleepStart = 0 /\ sleepFor = 0
  /\ guiPc = "start" /\ guiWake = 0
  /\ botPc = <<>> /\ botWake = <<>>
  /\ draws = 0 /\ drawn = <<>> /\ prevFinal = <<>>
  /\ tickCentroid = Unset /\ readC = <<>> /\ computed = <<>>
  /\ call = Unset

\* Robot.__init__ for each draw of randomBot
RobotChoices ==
  {[xy |-> <<b.x * Scale, b.y * Scale>>, color |-> c, nap |-> b.nap,
    prevTime |-> clock] : b \in BotChoices, c \in ColorChoices}

\* Arena.initForSwarm
initForSwarm ==
  /\ pc = "construct"
  /\ \E rs \in [1..numberOfRobots -> RobotChoices] :
       \* the runs are enumerated up to a permutation of the robots
       /\ \A i \in 1..(numberOfRobots - 1) : rs[i].nap <= rs[i + 1].nap
       /\ robots' = rs
       /\ IF numberOfRobots = 0
          THEN \* sumx / nbots with nbots = 0
               /\ error' = "ZeroDivisionError"
               /\ pc' = "failed"
               /\ UNCHANGED <<centroid, botPc, botWake, prevFinal, readC,
                              computed>>
          ELSE /\ error' = "none"
               /\ centroid' = refreshCentroid(rs)
               /\ pc' = IF useAsync THEN "gather" ELSE "sync_top"
               /\ botPc' = [i \in 1..numberOfRobots |-> "start"]
               /\ botWake' = [i \in 1..numberOfRobots |-> 0]
               /\ prevFinal' = [i \in 1..numberOfRobots |-> rs[i].xy]
               /\ readC' = [i \in 1..numberOfRobots |-> Unset]
               /\ computed' = [i \in 1..numberOfRobots |-> {rs[i].xy}]
  /\ UNCHANGED <<inputVars, keepRunning, displayOpen, clock, events, nInputs,
                 polled, syncVars, nFrames, guiPc, guiWake, draws, drawn,
                 tickCentroid>>

Running == pc \notin {"construct", "failed", "returned"}

\* pygame.event.get(): the events still queued plus those the user produced
\* since the last poll (window close, key presses)
Arrivals ==
  {<<>>} \cup UNION {[1..n -> EventKinds] : n \in 1..(MaxInputs - nInputs)}

\* ------------------------------------------------------------ Arena.runSync
\* lines 54-59: read the clock, poll the input, leave on a stop signal
SyncTop ==
  /\ pc = "sync_top"
  /\ clock <= MaxClock
  /\ now' = clock
  /\ next' = clock + DrawInterval
  /\ \E arrived \in Arrivals :
       /\ nInputs' = nInputs + Len(arrived)
       /\ polled' = events \o arrived
  /\ keepRunning' = KeepRunningAfter(polled', keepRunning)
  /\ displayOpen' = (displayOpen /\ ~HasQuit(polled'))
  /\ events' = Posted(polled')
  /\ tickCentroid' = centroid
  /\ pc' = IF keepRunning' THEN "sync_draw" ELSE "returned"
  /\ UNCHANGED <<inputVars, error, robots, centroid, clock, nFrames, idx,
                 sleepStart, sleepFor, asyncVars, draws, drawn, prevFinal,
                 readC, computed>>

\* lines 61-64: draw, count the frame, leave at the ceiling
SyncDraw ==
  /\ pc = "sync_draw"
  /\ drawn' = Snapshot(robots, centroid, clock)
  /\ \E w \in 0..MaxWork : clock' = clock + w
  /\ draws' = draws + 1
  /\ nFrames' = nFrames + 1
  /\ IF CeilingReached(nFrames', stopAfterNFrames)
     THEN pc' = "returned" /\ idx' = idx
     ELSE pc' = "sync_update" /\ idx' = 1
  /\ UNCHANGED <<inputVars, error, keepRunning, displayOpen, robots,
                 centroid, events, nInputs, polled, now, next, sleepStart,
                 sleepFor, asyncVars, prevFinal, tickCentroid, readC,
                 computed>>

\* lines 66-67: one iteration of the for loop, robot.update()
SyncUpdate ==
  /\ pc = "sync_update"
  /\ idx <= Len(robots)
  /\ robots' = [robots EXCEPT ![idx] = Update(@, findCentroid, clock)]
  /\ readC' = [readC EXCEPT ![idx] = findCentroid]
  /\ computed' = [computed EXCEPT ![idx] =
        @ \cup {Moved(robots[idx].xy, findCentroid,
                      clock - robots[idx].prevTime)}]
  /\ idx' = idx + 1
  /\ pc' = IF idx = Len(robots) THEN "sync_refresh" ELSE "sync_update"
  /\ UNCHANGED <<inputVars, error, keepRunning, displayOpen, centroid, clock,
                 events, nInputs, polled, now, next, nFrames, sleepStart,
                 sleepFor, asyncVars, draws, drawn, prevFinal, tickCentroid>>

\* line 68: self.refreshCentroid()
SyncRefresh ==
  /\ pc = "sync_refresh"
  /\ centroid' = refreshCentroid(robots)
  /\ prevFinal' = [i \in 1..Len(robots) |-> robots[i].xy]
  /\ pc' = "sync_sleep"
  /\ UNCHANGED <<inputVars, error, keepRunning, displayOpen, robots, clock,
                 events, nInputs, polled, syncVars, nFrames, asyncVars,
                 draws, drawn, tickCentroid, readC, computed>>

\* lines 70-71: if next > now: time.sleep(next - now)
SyncSleep ==
  /\ pc = "sync_sleep"
  /\ IF next > now
     THEN /\ sleepFor' = next - now
          /\ sleepStart' = clock
          /\ pc' = "sleeping"
     ELSE /\ pc' = "sync_top"
          /\ UNCHANGED <<sleepFor, sleepStart>>
  /\ UNCHANGED <<inputVars, error, keepRunning, displayOpen, robots,
                 centroid, clock, events, nInputs, polled, now, next, idx,
                 nFrames, asyncVars, draws, drawn, prevFinal, tickCentroid,
                 readC, computed>>

\* time.sleep returns when the requested time has passed
SyncWake ==
  /\ pc = "sleeping"
  /\ clock' = sleepStart + sleepFor
  /\ pc' = "sync_top"
  /\ UNCHANGED <<inputVars, error, keepRunning, displayOpen, robots,
                 centroid, events, nInputs, polled, syncVars, nFrames,
                 asyncVars, draws, drawn, prevFinal, tickCentroid, readC,
                 computed>>

\* ----------------------------------------------------------- Arena.runAsync
\* a task starts another loop iteration only while the modelled time lasts
LoopGuard(continues) == continues => clock <= MaxClock

\* Arena.runGuiAsync, from one await to the next
GuiStep ==
  /\ pc = "gather"
  /\ guiPc = "start" \/ (guiPc = "nap" /\ clock >= guiWake)
  /\ LoopGuard(keepRunning)
  /\ \E arrived \in Arrivals :
       /\ nInputs' = nInputs + Len(arrived)
       /\ polled' = events \o arrived
  /\ displayOpen' = (displayOpen /\ ~HasQuit(polled'))
  /\ events' = Posted(polled')
  /\ IF KeepRunningAfter(polled', keepRunning)
     THEN /\ drawn' = Snapshot(robots, centroid, clock)
          /\ \E w \in 0..MaxWork : clock' = clock + w
          /\ draws' = draws + 1
          /\ nFrames' = nFrames + 1
          /\ IF CeilingReached(nFrames', stopAfterNFrames)
             THEN /\ keepRunning' = FALSE
                  /\ guiPc' = "done"
                  /\ guiWake' = guiWake
             ELSE /\ keepRunning' = TRUE
                  /\ guiPc' = "nap"
                  /\ guiWake' = clock' + DrawInterval
     ELSE /\ keepRunning' = FALSE
          /\ guiPc' = "done"
          /\ UNCHANGED <<clock, drawn, draws, nFrames, guiWake>>
  /\ UNCHANGED <<pc, inputVars, error, robots, centroid, syncVars, botPc,
                 botWake, prevFinal, tickCentroid, readC, computed>>

\* while self.arena.keepRunning
BotContinuesAlways(kr) == TRUE
BotContinues(kr) == kr

\* Robot.runAsync of robot i, from one await to the next
BotStep(i) ==
  /\ pc = "gather"
  /\ botPc[i] = "start" \/ (botPc[i] = "nap" /\ clock >= botWake[i])
  /\ LoopGuard(BotContinues(keepRunning))
  /\ IF BotContinues(keepRunning)
     THEN /\ robots' = [robots EXCEPT ![i] = Update(@, findCentroid, clock)]
          /\ readC' = [readC EXCEPT ![i] = findCentroid]
          /\ computed' = [computed EXCEPT ![i] =
                @ \cup {Moved(robots[i].xy, findCentroid,
                              clock - robots[i].prevTime)}]
          /\ botWake' = [botWake EXCEPT ![i] = clock + robots[i].nap]
          /\ botPc' = [botPc EXCEPT ![i] = "nap"]
     ELSE /\ botPc' = [botPc EXCEPT ![i] = "done"]
          /\ UNCHANGED <<robots, readC, computed, botWake>>
  /\ UNCHANGED <<pc, inputVars, error, keepRunning, displayOpen, centroid,
                 clock, events, nInputs, polled, syncVars, nFrames, guiPc,
                 guiWake, draws, drawn, prevFinal, tickCentroid>>

BotSteps == \E i \in 1..Len(botPc) : BotStep(i)

\* the wake-up times of the sleeping tasks
WakeTimes ==
  (IF guiPc = "nap" THEN {guiWake} ELSE {})
    \cup {botWake[i] : i \in {j \in 1..Len(botPc) : botPc[j] = "nap"}}

\* some task can run now
TaskReady ==
  \/ guiPc = "start"
  \/ \E i \in 1..Len(botPc) : botPc[i] = "start"
  \/ \E t \in WakeTimes : t <= clock

\* the event loop has nothing to run: it waits for the earliest wake-up
AsyncIdle ==
  /\ pc = "gather"
  /\ ~TaskReady
  /\ WakeTimes # {}
  /\ clock' = CHOOSE t \in WakeTimes : \A u \in WakeTimes : t <= u
  /\ UNCHANGED <<pc, inputVars, error, keepRunning, displayOpen, robots,
                 centroid, events, nInputs, polled, syncVars, nFrames,
                 asyncVars, draws, drawn, prevFinal, tickCentroid, readC,
                 computed>>

AllTasksDone ==
  guiPc = "done" /\ \A i \in 1..Len(botPc) : botPc[i] = "done"

\* await asyncio.gather(guiTask, *botTasks) returns
GatherReturn ==
  /\ pc = "gather"
  /\ AllTasksDone
  /\ pc' = "returned"
  /\ UNCHANGED <<inputVars, error, keepRunning, displayOpen, robots,
                 centroid, clock, events, nInputs, polled, syncVars, nFrames,
                 asyncVars, draws, drawn, prevFinal, tickCentroid, readC,
                 computed>>

\* ------------------------------------------------------------ specifications
Next ==
  \/ initForSwarm
  \/ SyncTop
  \/ SyncDraw
  \/ SyncUpdate
  \/ SyncRefresh
  \/ SyncSleep
  \/ SyncWake
  \/ GuiStep
  \/ BotSteps
  \/ AsyncIdle
  \/ GatherReturn

Spec == Init /\ [][Next]_vars

\* Strategy B alone, with the fairness the asyncio event loop gives: a task
\* whose sleep has ended is run, and an idle loop waits for the next wake-up
InitAsync == Init /\ useAsync = TRUE

NextAsync ==
  \/ initForSwarm
  \/ GuiStep
  \/ BotSteps
  \/ AsyncIdle
  \/ GatherReturn

FairAsync ==
  /\ WF_vars(AsyncIdle)
  /\ WF_vars(GuiStep)
  /\ \A i \in 1..MaxBots :
       WF_vars(pc = "gather" /\ i <= Len(botPc) /\ BotStep(i))
  /\ WF_vars(GatherReturn)

SpecAsync == InitAsync /\ [][NextAsync]_vars /\ FairAsync

\* ------------------------------------------------- methods called directly
\* Arena.refreshCentroid and Robot.update called on objects built by hand:
\* call holds the method, the travel distance pixPerSecond * dt as a
\* fraction <<num, den>> of a pixel, and the robot's xy and prevTime before
\* the call; ret is the value returned.

\* Robot.__init__ at clock reading t
UnitRobot(xy, t) ==
  [xy |-> xy, color |-> <<10, 20, 30>>, nap |-> 1, prevTime |-> t]

\* swarms of 1..MaxUnitBots robots on the corners (0,0) (2,0) (0,2) (2,2)
UnitCorners == {<<x * Scale, y * Scale>> : x \in {0, 2}, y \in {0, 2}}

UnitSwarms ==
  UNION {[1..n -> {UnitRobot(p, 0) : p \in UnitCorners}] :
           n \in 1..MaxUnitBots}

\* positions of one robot, and the centroid's offsets from it: 0, 1/2, 3/4,
\* 1, 3, 4 and 5 pixels either way in x and in y
UnitStarts == {<<0, 0>>, <<5 * Scale, 3 * Scale>>}

UnitOffsets ==
  LET m == {0, Scale \div 2, (3 * Scale) \div 4, Scale, 3 * Scale,
            4 * Scale, 5 * Scale}
  IN m \cup {-a : a \in m}

\* travel distances: 0, 1/4, 1/2, 5/8, 1, 5 and 6 pixels
UnitTravels ==
  {<<0, 1>>, <<1, 4>>, <<1, 2>>, <<5, 8>>, <<1, 1>>, <<5, 1>>, <<6, 1>>}

\* the grid holds dist, dx and dy of Robot.update without rounding
Exact(xy, c, tr) ==
  LET distx == c[1] - xy[1]
      disty == c[2] - xy[2]
      dd == distx * distx + disty * disty
      h == Hypot(distx, disty)
      dist == Max(DistFloor * Scale, h)
  IN /\ dd < (DistFloor * Scale) * (DistFloor * Scale) \/ h * h = dd
     /\ (tr[1] * Scale * distx) % (tr[2] * dist) = 0
     /\ (tr[1] * Scale * disty) % (tr[2] * dist) = 0

\* an Arena whose loops are not running
UnitArena ==
  /\ useAsync = FALSE
  /\ stopAfterNFrames = 0
  /\ numberOfRobots = Len(robots)
  /\ error = "none"
  /\ keepRunning = TRUE
  /\ displayOpen = TRUE
  /\ events = <<>>
  /\ nInputs = 0
  /\ polled = <<>>
  /\ now = 0 /\ next = 0 /\ nFrames = 0 /\ idx = 0
  /\ sleepStart = 0 /\ sleepFor = 0
  /\ guiPc = "start" /\ guiWake = 0
  /\ botPc = <<>> /\ botWake = <<>>
  /\ draws = 0 /\ drawn = <<>> /\ prevFinal = <<>>
  /\ tickCentroid = Unset /\ readC = <<>> /\ computed = <<>>

InitUnit ==
  /\ \/ /\ pc = "call_refreshCentroid"
        /\ robots \in UnitSwarms
        /\ centroid = Unset
        /\ clock = 0
        /\ call = [op |-> "refreshCentroid", travel |-> <<0, 1>>,
                   xy |-> <<0, 0>>, prev |-> 0, ret |-> Unset]
     \/ /\ pc = "call_update_travel"
        /\ \E xy \in UnitStarts, ox \in UnitOffsets, oy \in UnitOffsets,
              tr \in UnitTravels :
             /\ Exact(xy, <<xy[1] + ox, xy[2] + oy>>, tr)
             /\ robots = <<UnitRobot(xy, 0)>>
             /\ centroid = <<xy[1] + ox, xy[2] + oy>>
             /\ call = [op |-> "update_travel", travel |-> tr, xy |-> xy,
                        prev |-> 0, ret |-> Unset]
        /\ clock = 0
     \/ /\ pc = "call_update"
        /\ \E xy \in UnitStarts, ox \in UnitOffsets, oy \in UnitOffsets,
              t0 \in 0..MaxUnitTime :
             /\ robots = <<UnitRobot(xy, t0)>>
             /\ centroid = <<xy[1] + ox, xy[2] + oy>>
             /\ clock \in t0..MaxUnitTime
             /\ call = [op |-> "update", travel |-> <<0, 1>>, xy |-> xy,
                        prev |-> t0, ret |-> Unset]
  /\ UnitArena

\* arena.refreshCentroid()
UnitRefreshCentroid ==
  /\ pc = "call_refreshCentroid"
  /\ centroid' = refreshCentroid(robots)
  /\ call' = [call EXCEPT !.ret = centroid']
  /\ pc' = "call_returned"
  /\ UNCHANGED <<useAsync, stopAfterNFrames, numberOfRobots, error,
                 keepRunning, displayOpen, robots, clock, events, nInputs,
                 polled, syncVars, nFrames, asyncVars, draws, drawn,
                 prevFinal, tickCentroid, readC, computed>>

\* robot.update() after a time shorter than a clock unit: the travel
\* distance is call.travel
UnitUpdateTravel ==
  /\ pc = "call_update_travel"
  /\ robots' = [robots EXCEPT ![1] =
        [@ EXCEPT !.xy = StoreXY(@, MovedBy(@, findCentroid, call.travel[1],
                                            call.travel[2])),
                  !.prevTime = clock]]
  /\ pc' = "call_returned"
  /\ UNCHANGED <<useAsync, stopAfterNFrames, numberOfRobots, error,
                 keepRunning, displayOpen, centroid, clock, events, nInputs,
                 polled, syncVars, nFrames, asyncVars, draws, drawn,
                 prevFinal, tickCentroid, readC, computed, call>>

\* robot.update() at the clock reading clock
UnitUpdate ==
  /\ pc = "call_update"
  /\ robots' = [robots EXCEPT ![1] = Update(@, findCentroid, clock)]
  /\ pc' = "call_returned"
  /\ UNCHANGED <<useAsync, stopAfterNFrames, numberOfRobots, error,
                 keepRunning, displayOpen, centroid, clock, events, nInputs,
                 polled, syncVars, nFrames, asyncVars, draws, drawn,
                 prevFinal, tickCentroid, readC, computed, call>>

NextUnit ==
  \/ UnitRefreshCentroid
  \/ UnitUpdateTravel
  \/ UnitUpdate

SpecUnit == InitUnit /\ [][NextUnit]_vars

TypeOK ==
  /\ pc \in {"construct", "failed", "sync_top", "sync_draw", "sync_update",
             "sync_refresh", "sync_sleep", "sleeping", "gather", "returned"}
  /\ keepRunning \in BOOLEAN
  /\ displayOpen \in BOOLEAN
  /\ pc # "construct" => Len(robots) = numberOfRobots
  /\ draws = nFrames

\* ------------------------------------------------------------------ claims

\* C1: with stopAfterNFrames = k >= 1, under either strategy, drawBots is
\* never called more than k times, and a run that ended without a stop signal
\* having been polled made exactly k calls.
C1_ExactlyKDraws ==
  stopAfterNFrames >= 1 =>
    /\ draws <= stopAfterNFrames
    /\ (pc = "returned" /\ displayOpen) => draws = stopAfterNFrames

C1_Witness ==
  /\ pc = "returned" /\ displayOpen /\ useAsync
  /\ stopAfterNFrames >= 2 /\ draws = stopAfterNFrames

\* C2: in runAsync, once keepRunning is false the next step of every robot
\* task (the end of its nap) leaves its loop, the renderer task has left its
\* loop, and under fair scheduling the gather eventually returns.
C2_AsyncTerminates ==
  /\ [][\A i \in 1..Len(botPc) :
          (useAsync /\ ~keepRunning /\ botPc'[i] # botPc[i])
            => (botPc'[i] = "done" /\ robots'[i] = robots[i])]_vars
  /\ (useAsync /\ pc = "gather" /\ ~keepRunning)
       ~> (pc = "returned" /\ AllTasksDone)

C2_Witness ==
  /\ useAsync /\ pc = "returned" /\ ~keepRunning /\ AllTasksDone
  /\ numberOfRobots >= 2
  /\ \E i \in 1..Len(robots) : robots[i].prevTime > 0

\* C3: in runAsync every renderer tick (draw) leaves the stored centroid
\* equal to the mean of the robot positions at that tick.
C3_CentroidRefreshedEachRendererTick ==
  [][(useAsync /\ draws' = draws + 1) => centroid' = Mean(robots')]_vars

\* C4: constructing an Arena with fewer than one robot fails with
\* InvalidConfiguration and stores no centroid, without a division by zero.
C4_EmptySwarmRejected ==
  (pc # "construct" /\ numberOfRobots < 1) =>
    (error = "InvalidConfiguration" /\ centroid = Unset)

\* C5: in runSync the positions drawn in a tick are the final positions of
\* the previous tick (the initial ones in the first tick), all through the
\* updates of the tick.
C5_DrawBeforeUpdates ==
  (~useAsync /\ pc \in {"sync_update", "sync_refresh"}) => drawn = prevFinal

C5_Witness ==
  /\ ~useAsync /\ pc = "sync_refresh" /\ draws >= 2
  /\ \E i \in 1..Len(robots) : robots[i].xy # drawn[i]

\* C6: within one tick of runSync every robot's update reads the centroid
\* stored at the start of the tick, and the stored centroid is not overwritten
\* before the last robot of the tick was updated.
C6_SameCentroidWithinTick ==
  (~useAsync /\ pc \in {"sync_update", "sync_refresh"}) =>
    /\ centroid = tickCentroid
    /\ \A i \in 1..(idx - 1) : readC[i] = tickCentroid

C6_Witness ==
  /\ ~useAsync /\ pc = "sync_refresh" /\ numberOfRobots >= 2
  /\ \A i \in 1..Len(robots) : readC[i] = centroid
  /\ \A i \in 1..Len(robots) : robots[i].xy # prevFinal[i]

C8_FlagFalseAfterReturn == pc = "returned" => ~keepRunning

\* C9: the time.sleep at the end of a tick of runSync is given the time that
\* remains until the tick's deadline (next minus the time of the call), zero
\* when the deadline has passed.
C9_SleepsOnlyRemainingTime ==
  pc = "sleeping" => sleepFor = Max(0, next - sleepStart)

\* C10: in runAsync the pair drawn for a robot is always a pair that one
\* single update of that robot computed, or its initial pair.
C10_NoTornPosition ==
  useAsync => \A i \in 1..Len(drawn) : drawn[i] \in computed[i]

C10_Witness ==
  /\ useAsync /\ draws >= 1
  /\ \E i \in 1..Len(drawn) : drawn[i] # prevFinal[i]

\* C11: a call of Robot.update on robot i changes nothing but robot i's
\* position and last-update timestamp: the stored centroid, keepRunning, the
\* other robots, and robot i's nap and color stay as they were.
C11_UpdateTouchesOnlyItsRobot ==
  [][\A i \in 1..Len(robots) :
       (pc # "construct" /\ robots'[i] # robots[i]) =>
         /\ centroid' = centroid
         /\ keepRunning' = keepRunning
         /\ robots'[i].nap = robots[i].nap
         /\ robots'[i].color = robots[i].color
         /\ \A j \in 1..Len(robots) : j # i => robots'[j] = robots[j]]_vars

C11_Witness ==
  /\ numberOfRobots >= 2
  /\ \E i \in 1..Len(robots) :
       /\ robots[i].prevTime > 0 /\ robots[i].xy # prevFinal[i]
       /\ \E j \in 1..Len(robots) : robots[j].prevTime < robots[i].prevTime

\* C12: once the Arena is constructed the centroid is stored, and until the
\* first Robot.update it is the mean of the initial positions: no update
\* reads a centroid that was never assigned.
C12_CentroidSetBeforeFirstUpdate ==
  pc \notin {"construct", "failed"} =>
    /\ centroid # Unset
    /\ (\A i \in 1..Len(readC) : readC[i] = Unset) => centroid = Mean(robots)
    /\ \A i \in 1..Len(readC) : robots[i].prevTime > 0 => readC[i] # Unset

C12_Witness ==
  /\ draws = 0
  /\ \E i \in 1..Len(readC) : readC[i] # Unset /\ readC[i] = Mean(robots)

\* C13: refreshCentroid stores and returns the mean of the robots' positions
\* (sum of x over N, sum of y over N, to the resolution of the grid) for every
\* non-empty swarm; robots at (0,0), (2,0), (0,2), (2,2) give (1,1).
C13_CentroidIsExactMean ==
  (pc = "call_returned" /\ call.op = "refreshCentroid") =>
    LET n == Len(robots)
    IN /\ centroid # Unset
       /\ call.ret = centroid
       /\ Abs(SumX(robots) - n * centroid[1]) < n
       /\ Abs(SumY(robots) - n * centroid[2]) < n
       /\ (SumX(robots) % n = 0) => n * centroid[1] = SumX(robots)
       /\ (SumY(robots) % n = 0) => n * centroid[2] = SumY(robots)

C13_Witness ==
  /\ pc = "call_returned" /\ call.op = "refreshCentroid"
  /\ [i \in 1..Len(robots) |-> robots[i].xy]
       = <<<<0, 0>>, <<2 * Scale, 0>>, <<0, 2 * Scale>>,
           <<2 * Scale, 2 * Scale>>>>
  /\ centroid = <<Scale, Scale>>
  /\ call.ret = <<Scale, Scale>>

\* C14: for a robot not at the centroid and a travel distance that is
\* positive and smaller than its distance to the centroid, update puts the
\* new position on the segment from the old position to the centroid,
\* strictly between the two, also when the distance is below the floor of 1.
C14_MovesStrictlyBetween ==
  (pc = "call_returned" /\ call.op = "update_travel") =>
    LET old == call.xy
        new == robots[1].xy
        ox == centroid[1] - old[1]
        oy == centroid[2] - old[2]
        mx == new[1] - old[1]
        my == new[2] - old[2]
        dd == ox * ox + oy * oy
        num == call.travel[1]
        den == call.travel[2]
    IN (/\ old # centroid
        /\ num > 0
        /\ (num * Scale) * (num * Scale) < den * den * dd)
         => /\ mx * oy = my * ox
            /\ 0 < mx * ox + my * oy
            /\ mx * ox + my * oy < dd

C14_Witness ==
  /\ pc = "call_returned" /\ call.op = "update_travel"
  /\ LET ox == centroid[1] - call.xy[1]
         oy == centroid[2] - call.xy[2]
         dd == ox * ox + oy * oy
         num == call.travel[1]
         den == call.travel[2]
     IN /\ 0 < dd /\ dd < Scale * Scale
        /\ ox # 0 /\ oy # 0
        /\ num > 0
        /\ (num * Scale) * (num * Scale) < den * den * dd
        /\ robots[1].xy # call.xy
        /\ robots[1].xy # centroid

\* C15: an update with dt = 0 (the clock reads the robot's prevTime) leaves
\* the robot's position unchanged and raises no error, for every centroid,
\* the robot's own position included.
C15_ZeroDtLeavesPosition ==
  (pc = "call_returned" /\ call.op = "update" /\ clock = call.prev) =>
    /\ robots[1].xy = call.xy
    /\ robots[1].prevTime = clock
    /\ error = "none"

C15_Witness ==
  /\ pc = "call_returned" /\ call.op = "update"
  /\ clock = call.prev /\ clock > 0
  /\ call.xy = centroid
  /\ robots[1].xy = call.xy

\* C17: when the list a poll drained holds a QUIT event or an Escape
\* key-down, keepRunning is false when that call of handlePygameEvents
\* returns.
C17_PollReportsEveryStopRequest ==
  HasStopRequest(polled) => ~keepRunning

\* C18: in runSync, at every draw the stored centroid is the mean of the
\* positions that are drawn.
C18_SyncCentroidFreshAtDraw ==
  [][(~useAsync /\ draws' = draws + 1) =>
       (centroid = Mean(robots)
        /\ drawn' = [i \in 1..Len(robots) |-> robots[i].xy])]_vars

C18_Witness ==
  /\ ~useAsync /\ draws >= 2 /\ pc = "sync_update" /\ idx = 1
  /\ centroid = Mean(robots)
  /\ \E i \in 1..Len(robots) : robots[i].prevTime > 0

\* C19: in runAsync, once keepRunning is false no robot's position (or any
\* other robot attribute) changes any more.
C19_NoUpdateAfterStop ==
  [][(useAsync /\ ~keepRunning) => robots' = robots]_vars

C19_Witness ==
  /\ useAsync /\ ~keepRunning /\ pc = "gather"
  /\ \E i \in 1..Len(botPc) :
       /\ botPc[i] = "done" /\ robots[i].prevTime > 0
       /\ robots[i].xy # prevFinal[i]

\* C20: under both strategies drawBots is only called while the display is
\* open: no draw in or after the poll that handled a QUIT event.
C20_NoDrawAfterDisplayQuit ==
  [][draws' # draws => (displayOpen' /\ keepRunning)]_vars

C20_Witness ==
  /\ ~displayOpen /\ ~keepRunning /\ draws >= 1 /\ pc = "returned"
  /\ HasQuit(polled)

====
